---- MODULE Spec2Model ----
(***************************************************************************)
(* Model of the fsWebui backend's chat pipeline:                           *)
(*   backend/handlers/chat.ts  (src/unnamed/part_001): getAllowedTools,    *)
(*       prepareMessageWithRules, executeClaudeCommand, handleChatRequest  *)
(*   backend/app.ts            : createApp (the shared AbortController map *)
(*       and the routes)                                                   *)
(*   backend/rules/loader.ts   : the RULES.md cache                        *)
(*                                                                         *)
(* JavaScript strings are modelled as sequences of one-character strings,  *)
(* so that startsWith, substring, includes and concatenation are computed  *)
(* character by character as the code computes them.  An optional value    *)
(* (undefined or a value) is the empty sequence or a one-element sequence. *)
(***************************************************************************)
EXTENDS Integers, Sequences, FiniteSets, TLC

VARIABLES
    registry,      \* requestAbortControllers: requestId -> AbortController (app.ts:60)
    signalled,     \* AbortController.signal.aborted, per controller
    request,       \* the ChatRequest each turn was started with (<<>> before the turn starts)
    call,          \* the arguments of the turn's query() call (<<>> before the call)
    pc,            \* where the turn's generator/relay pair is
    engine,        \* how the turn's query() iteration stands
    emitted,       \* the SDK messages query() has produced so far, per turn
    chunk,         \* the StreamResponse the generator is suspended on (<<>> if none)
    lines,         \* the NDJSON lines enqueued on the response stream, per turn
    stream,        \* state of the ReadableStream controller, per turn
    delivered,     \* how many of the enqueued lines the client has read, per turn
    response,      \* response of the abort handler when it was the last step, else <<>>
    rulesPath,     \* loader.ts:39
    cachedRules,   \* loader.ts:37
    rulesFile,     \* what is on disk at rulesPath
    loads,         \* loadRules() calls suspended in readFile
    latestLoad,    \* the loadRules() call begun last: in progress, or what it cached
    startup,       \* where main() stands, with its cliPath and the AppConfig's
    toolsArg,      \* argument of a stand-alone getAllowedTools call
    toolsResult    \* its result (<<>> before the call)

vars == <<registry, signalled, request, call, pc, engine, emitted, chunk, lines, stream,
          delivered, response, rulesPath, cachedRules, rulesFile, loads, latestLoad,
          startup,
          toolsArg, toolsResult>>

turnVars == <<registry, signalled, request, call, pc, engine, emitted, chunk, lines,
              stream, delivered>>
ruleVars == <<rulesPath, cachedRules, rulesFile, loads, latestLoad>>
toolVars == <<toolsArg, toolsResult>>

----------------------------------------------------------------------------
(* Bounds *)

MaxEvents == 2      \* SDK messages one query() call produces at most
MaxTools == 3       \* length of a frontendAllowedTools list at most
MaxLoads == 2       \* loadRules() calls suspended in readFile at the same time

----------------------------------------------------------------------------
(* Strings and optionals *)

Absent == <<>>
Some(x) == <<x>>
IsSome(o) == Len(o) = 1
Val(o) == o[1]

\* String.prototype.startsWith
StartsWith(s, p) == Len(s) >= Len(p) /\ SubSeq(s, 1, Len(p)) = p

\* String.prototype.includes
StrIncludes(s, p) ==
    \E i \in 1..(Len(s) - Len(p) + 1) : SubSeq(s, i, i + Len(p) - 1) = p

\* String.prototype.substring(from), from counted from 0
Substring(s, from) == SubSeq(s, from + 1, Len(s))

\* Array.prototype.includes
ArrIncludes(arr, x) == \E i \in 1..Len(arr) : arr[i] = x

----------------------------------------------------------------------------
(* getAllowedTools *)

READ_ONLY_TOOLS ==
    << <<"R","e","a","d">>, <<"G","r","e","p">>, <<"G","l","o","b">>,
       <<"L","S","P">>, <<"T","a","s","k">> >>

BLOCKED_WRITE_TOOLS ==
    << <<"W","r","i","t","e">>, <<"E","d","i","t">>, <<"D","e","l","e","t","e">>,
       <<"M","o","v","e">>, <<"B","a","s","h">> >>

\* Faulty variant: only the exact names are blocked, "Bash(ls)" passes
BlockedExactOnly(tool) ==
    \E i \in 1..Len(BLOCKED_WRITE_TOOLS) : tool = BLOCKED_WRITE_TOOLS[i]

\* BLOCKED_WRITE_TOOLS.some(blocked => tool === blocked || tool.startsWith(blocked + "("))
IsBlockedWriteTool(tool) ==
    \E i \in 1..Len(BLOCKED_WRITE_TOOLS) :
        LET blocked == BLOCKED_WRITE_TOOLS[i]
        IN  tool = blocked \/ StartsWith(tool, blocked \o <<"(">>)

\* Faulty variant: the tool is pushed without the includes test
PushAlways(tools, tool) == Append(tools, tool)

\* if (!tools.includes(tool)) tools.push(tool)
PushIfAbsent(tools, tool) ==
    IF ~ArrIncludes(tools, tool) THEN Append(tools, tool) ELSE tools

\* the for loop over frontendAllowedTools
RECURSIVE AddApproved(_, _)
AddApproved(tools, rest) ==
    IF rest = <<>> THEN tools
    ELSE IF IsBlockedWriteTool(Head(rest))
         THEN AddApproved(tools, Tail(rest))
         ELSE AddApproved(PushIfAbsent(tools, Head(rest)), Tail(rest))

\* frontendAllowedTools is an optional list of tool names
getAllowedTools(frontendAllowedTools) ==
    IF IsSome(frontendAllowedTools)
    THEN AddApproved(READ_ONLY_TOOLS, Val(frontendAllowedTools))
    ELSE READ_ONLY_TOOLS

----------------------------------------------------------------------------
(* The Rules Document cache (rules/loader.ts) *)

\* Stands for the 20-line template literal DEFAULT_RULES.
DEFAULT_RULES == <<"#","D">>

\* Faulty variant: the rules are read from the file on every call
GetRulesFromFile ==
    IF rulesFile.exists /\ rulesFile.readable THEN rulesFile.content ELSE DEFAULT_RULES

\* return cachedRules ?? DEFAULT_RULES
getCachedRules == IF IsSome(cachedRules) THEN Val(cachedRules) ELSE DEFAULT_RULES

----------------------------------------------------------------------------
(* prepareMessageWithRules *)

\* The text between ${rules} and ${message} in the template literal.
RulesSeparator ==
    <<"\n","\n","-","-","-","\n",
      "U","s","e","r"," ","m","e","s","s","a","g","e",":"," ">>

\* if (x) for an optional string: undefined and "" are both falsy
TruthyStr(o) == IsSome(o) /\ Val(o) # <<>>

\* Faulty variant: the rules are prepended on every turn, resumed or not
PrepareAlwaysInject(message, sessionId) ==
    getCachedRules \o RulesSeparator \o message

prepareMessageWithRules(message, sessionId) ==
    IF TruthyStr(sessionId)
    THEN message
    ELSE getCachedRules \o RulesSeparator \o message

----------------------------------------------------------------------------
(* executeClaudeCommand: the part before query() *)

\* Faulty variant: every '/' at the front is removed, not only the first
RECURSIVE StripAllSlashes(_)
StripAllSlashes(message) ==
    IF StartsWith(message, <<"/">>) THEN StripAllSlashes(Substring(message, 1))
    ELSE message

\* if (message.startsWith("/")) processedMessage = message.substring(1)
ProcessMessage(message) ==
    IF StartsWith(message, <<"/">>) THEN Substring(message, 1) ELSE message

\* const { cliPath } = c.var.config: the AppConfig's cliPath, set when the app is
\* created
cliPath == Val(startup.config)

EmptyOptions == [k \in {} |-> k]

\* Faulty variant: the key is always there, with an empty value for an omitted field
SpreadPlaceholder(key, o) == [k \in {key} |-> IF IsSome(o) THEN Val(o) ELSE <<>>]

\* ...(x ? { key: x } : {})
Spread(key, o) == IF TruthyStr(o) THEN [k \in {key} |-> Val(o)] ELSE EmptyOptions

\* Faulty variant: the client's list is handed to the engine as it came
RawAllowedTools(frontendAllowedTools) ==
    IF IsSome(frontendAllowedTools) THEN Val(frontendAllowedTools) ELSE READ_ONLY_TOOLS

\* const safeAllowedTools = getAllowedTools(allowedTools)
SafeAllowedTools(frontendAllowedTools) == getAllowedTools(frontendAllowedTools)

\* The argument of query(): prompt and options; a key is in DOMAIN options
\* exactly when the object literal has it.
QueryArgs(req, h) ==
    [ prompt  |-> prepareMessageWithRules(ProcessMessage(req.message), req.sessionId),
      options |-> [ abortController |-> h,
                    executable |-> "node",
                    executableArgs |-> <<>>,
                    pathToClaudeCodeExecutable |-> cliPath,
                    allowedTools |-> SafeAllowedTools(req.allowedTools) ]
                  @@ Spread("resume", req.sessionId)
                  @@ Spread("cwd", req.workingDirectory)
                  @@ Spread("permissionMode", req.permissionMode) ]

----------------------------------------------------------------------------
(* executeClaudeCommand: the catch block *)

AbortErrorName == <<"A","b","o","r","t","E","r","r","o","r">>
ErrorName == <<"E","r","r","o","r">>
AbortMarker == <<"a","b","o","r","t","e","d"," ","b","y"," ","u","s","e","r">>

\* A thrown value: whether it is an Error, its name and message, and String(error).
\* What the engine (or anything else in the try block) may throw:
ThrownAbortError ==
    [isError |-> TRUE, name |-> AbortErrorName, message |-> <<"s","t","o","p">>,
     str |-> AbortErrorName \o <<":"," ","s","t","o","p">>]
ThrownMarker ==
    [isError |-> TRUE, name |-> ErrorName, message |-> <<"x"," ">> \o AbortMarker,
     str |-> ErrorName \o <<":"," ","x"," ">> \o AbortMarker]
ThrownBoom ==
    [isError |-> TRUE, name |-> ErrorName, message |-> <<"b","o","o","m">>,
     str |-> ErrorName \o <<":"," ","b","o","o","m">>]
ThrownEmpty ==
    [isError |-> TRUE, name |-> ErrorName, message |-> <<>>, str |-> ErrorName]
ThrownString ==
    [isError |-> FALSE, name |-> <<>>, message |-> <<>>, str |-> <<"o","o","p","s">>]

Thrown == {ThrownAbortError, ThrownMarker, ThrownBoom, ThrownEmpty, ThrownString}

errorMessage(error) == IF error.isError THEN error.message ELSE <<>>
errorName(error) == IF error.isError THEN error.name ELSE <<>>

\* Faulty variant: only the error's name is looked at
IsAbortByNameOnly(error) == errorName(error) = AbortErrorName

\* errorName === "AbortError" || errorMessage.includes("aborted by user")
isAbort(error) ==
    errorName(error) = AbortErrorName \/ StrIncludes(errorMessage(error), AbortMarker)

DoneEvent == [type |-> "done"]
AbortedEvent == [type |-> "aborted"]
ErrorEvent(text) == [type |-> "error", error |-> text]

\* Faulty variant: every claude_json event carries the first message's number
ClaudeJsonStale(sdkMessage) ==
    [type |-> "claude_json", data |-> [sdkMessage EXCEPT !.seq = 1]]

\* yield { type: "claude_json", data: sdkMessage }
ClaudeJson(sdkMessage) == [type |-> "claude_json", data |-> sdkMessage]

\* Faulty variant: every failure is reported as an error event
CatchAlwaysError(error) ==
    ErrorEvent(IF errorMessage(error) # <<>> THEN errorMessage(error) ELSE error.str)

\* Faulty variant: the error event always carries String(error)
CatchStringOnly(error) ==
    IF isAbort(error) THEN AbortedEvent ELSE ErrorEvent(error.str)

\* The event the catch block yields for a thrown value.
CatchEvent(error) ==
    IF isAbort(error)
    THEN AbortedEvent
    ELSE ErrorEvent(IF errorMessage(error) # <<>> THEN errorMessage(error) ELSE error.str)

\* Whether the generator is suspended on one of the yields that only the finally
\* block follows (lines 141, 154, 157), not on the yield inside the loop (135).
LastYield(ev) == ev.type # "claude_json"

----------------------------------------------------------------------------
(* Turns: one per POST /api/chat, each with its own AbortController,        *)
(* generator (executeClaudeCommand) and ReadableStream (handleChatRequest). *)

\* The AbortControllers, named in the order `new AbortController()` creates them.
Handles == {"h1", "h2"}
HandleOrder == <<"h1", "h2">>

RequestIds == {"r1", "r2"}

EmptyMap == [k \in {} |-> k]

\* Faulty variant: set keeps the entry a key already has
MapSetIfAbsent(m, k, v) ==
    IF k \in DOMAIN m THEN m
    ELSE [x \in (DOMAIN m) \cup {k} |-> IF x = k THEN v ELSE m[x]]

\* Map.prototype.set
MapSet(m, k, v) == [x \in (DOMAIN m) \cup {k} |-> IF x = k THEN v ELSE m[x]]

\* Map.prototype.delete
MapDelete(m, k) == [x \in (DOMAIN m) \ {k} |-> m[x]]

\* Faulty variant: the finally block leaves the map as it is
FinallyKeep(m, requestId) == m

\* Faulty variant: the finally block empties the map
FinallyClear(m, requestId) == EmptyMap

\* finally { if (map.has(requestId)) map.delete(requestId) }
Finally(m, requestId) == IF requestId \in DOMAIN m THEN MapDelete(m, requestId) ELSE m

\* The turn that the next POST /api/chat starts.
NextHandle ==
    HandleOrder[CHOOSE i \in 1..Len(HandleOrder) :
                    /\ pc[HandleOrder[i]] = "idle"
                    /\ \A j \in 1..(i - 1) : pc[HandleOrder[j]] # "idle"]

AppCreated == IsSome(rulesPath)

\* handleChatRequest up to the first suspension: the ReadableStream is built, start()
\* pulls the generator, which runs to its first await inside `for await (... of query())`.
StartTurn(h, req) ==
    /\ AppCreated
    /\ \E g \in Handles : pc[g] = "idle"
    /\ h = NextHandle
    /\ registry' = MapSet(registry, req.requestId, h)
    /\ request' = [request EXCEPT ![h] = Some(req)]
    /\ call' = [call EXCEPT ![h] = Some(QueryArgs(req, h))]
    /\ pc' = [pc EXCEPT ![h] = "await"]
    /\ engine' = [engine EXCEPT ![h] = <<"running">>]
    /\ stream' = [stream EXCEPT ![h] = "readable"]
    /\ response' = Absent
    /\ UNCHANGED <<signalled, emitted, chunk, lines, delivered, ruleVars, toolVars, startup>>

\* query() produces its next SDK message; the generator yields it as claude_json.
\* json says whether JSON.stringify accepts the message.
EngineEmit(h, json) ==
    /\ pc[h] = "await"
    /\ Len(emitted[h]) < MaxEvents
    /\ LET sdkMessage == [seq |-> Len(emitted[h]) + 1, json |-> json]
       IN  /\ emitted' = [emitted EXCEPT ![h] = Append(@, sdkMessage)]
           /\ chunk' = [chunk EXCEPT ![h] = Some(ClaudeJson(sdkMessage))]
    /\ pc' = [pc EXCEPT ![h] = "yield"]
    /\ response' = Absent
    /\ UNCHANGED <<registry, signalled, request, call, engine, lines, stream,
                   delivered, ruleVars, toolVars, startup>>

\* query()'s sequence ends; the generator leaves the loop and yields done.
EngineEnd(h) ==
    /\ pc[h] = "await"
    /\ engine' = [engine EXCEPT ![h] = <<"ended">>]
    /\ chunk' = [chunk EXCEPT ![h] = Some(DoneEvent)]
    /\ pc' = [pc EXCEPT ![h] = "yield"]
    /\ response' = Absent
    /\ UNCHANGED <<registry, signalled, request, call, emitted, lines, stream,
                   delivered, ruleVars, toolVars, startup>>

\* query() throws; the catch block yields aborted or error.
EngineThrow(h, error) ==
    /\ pc[h] = "await"
    /\ engine' = [engine EXCEPT ![h] = <<"threw", error>>]
    /\ chunk' = [chunk EXCEPT ![h] = Some(CatchEvent(error))]
    /\ pc' = [pc EXCEPT ![h] = "yield"]
    /\ response' = Absent
    /\ UNCHANGED <<registry, signalled, request, call, emitted, lines, stream,
                   delivered, ruleVars, toolVars, startup>>

\* JSON.stringify(chunk): fails on a claude_json event whose data it cannot serialize.
StringifyThrows(ev) == ev.type = "claude_json" /\ ~ev.data.json

\* controller.enqueue and controller.close throw unless the stream is readable.
CanCloseOrEnqueue(h) == stream[h] = "readable"

StringifyErrorText == <<"n","o","t"," ","j","s","o","n">>
InvalidStateText == <<"I","n","v","a","l","i","d"," ","s","t","a","t","e">>

\* The body of the relay's for-await loop on the yielded chunk, then the pull of the
\* next one.  If the body throws, the loop awaits generator.return().  Otherwise the
\* generator is resumed: after claude_json it awaits query() again; after a terminal
\* event control reaches the finally block and the generator completes.
RelayWrite(h) ==
    /\ pc[h] = "yield"
    /\ LET ev == Val(chunk[h])
           requestId == Val(request[h]).requestId
       IN  IF StringifyThrows(ev) \/ ~CanCloseOrEnqueue(h)
           THEN /\ chunk' = [chunk EXCEPT ![h] =
                        Some(ErrorEvent(IF StringifyThrows(ev) THEN StringifyErrorText
                                        ELSE InvalidStateText))]
                /\ pc' = [pc EXCEPT ![h] = "return"]
                /\ UNCHANGED <<lines, registry>>
           ELSE /\ lines' = [lines EXCEPT ![h] = Append(@, ev)]
                /\ chunk' = [chunk EXCEPT ![h] = Absent]
                /\ IF LastYield(ev)
                   THEN /\ registry' = Finally(registry, requestId)
                        /\ pc' = [pc EXCEPT ![h] = "close"]
                   ELSE /\ pc' = [pc EXCEPT ![h] = "await"]
                        /\ UNCHANGED registry
    /\ response' = Absent
    /\ UNCHANGED <<signalled, request, call, engine, emitted, stream, delivered,
                   ruleVars, toolVars, startup>>

\* generator.return(): query()'s iterator is closed if it was still open, then the
\* finally block runs.
GeneratorReturn(h) ==
    /\ pc[h] = "return"
    /\ registry' = Finally(registry, Val(request[h]).requestId)
    /\ engine' = [engine EXCEPT ![h] = IF @ = <<"running">> THEN <<"returned">> ELSE @]
    /\ pc' = [pc EXCEPT ![h] = "catch"]
    /\ response' = Absent
    /\ UNCHANGED <<signalled, request, call, emitted, chunk, lines, stream,
                   delivered, ruleVars, toolVars, startup>>

\* The relay's catch block: enqueue the error line and close; if that enqueue
\* throws, the exception leaves start().
RelayCatch(h) ==
    /\ pc[h] = "catch"
    /\ IF CanCloseOrEnqueue(h)
       THEN /\ lines' = [lines EXCEPT ![h] = Append(@, Val(chunk[h]))]
            /\ stream' = [stream EXCEPT ![h] = "closed"]
            /\ pc' = [pc EXCEPT ![h] = "closed"]
       ELSE /\ pc' = [pc EXCEPT ![h] = "thrown"]
            /\ UNCHANGED <<lines, stream>>
    /\ chunk' = [chunk EXCEPT ![h] = Absent]
    /\ response' = Absent
    /\ UNCHANGED <<registry, signalled, request, call, engine, emitted, delivered,
                   ruleVars, toolVars, startup>>

\* controller.close() after the loop; if it throws, the catch block runs at once,
\* its enqueue throws as well and the exception leaves start().
RelayClose(h) ==
    /\ pc[h] = "close"
    /\ IF CanCloseOrEnqueue(h)
       THEN /\ stream' = [stream EXCEPT ![h] = "closed"]
            /\ pc' = [pc EXCEPT ![h] = "closed"]
       ELSE /\ pc' = [pc EXCEPT ![h] = "thrown"]
            /\ UNCHANGED stream
    /\ response' = Absent
    /\ UNCHANGED <<registry, signalled, request, call, engine, emitted, chunk, lines,
                   delivered, ruleVars, toolVars, startup>>

\* The client goes away: the server cancels the response stream.  This is an I/O
\* event, so it does not fall between the write of the terminal line and
\* controller.close(), which only microtasks separate.
ClientCancel(h) ==
    /\ stream[h] = "readable"
    /\ pc[h] # "close"
    /\ stream' = [stream EXCEPT ![h] = "cancelled"]
    /\ response' = Absent
    /\ UNCHANGED <<registry, signalled, request, call, pc, engine, emitted, chunk, lines,
                   delivered, ruleVars, toolVars, startup>>

\* The client reads the next line out of the response stream's queue.
ClientRead(h) ==
    /\ stream[h] \in {"readable", "closed"}
    /\ delivered[h] < Len(lines[h])
    /\ delivered' = [delivered EXCEPT ![h] = @ + 1]
    /\ response' = Absent
    /\ UNCHANGED <<registry, signalled, request, call, pc, engine, emitted, chunk, lines,
                   stream, ruleVars, toolVars, startup>>

\* POST /api/abort/:requestId.  trigger(id): signal the registered handle and report
\* whether an entry existed.
handleAbortRequest(requestId) ==
    /\ AppCreated
    /\ IF requestId \in DOMAIN registry
       THEN /\ signalled' = [signalled EXCEPT ![registry[requestId]] = TRUE]
            /\ response' = Some([requestId |-> requestId, found |-> TRUE])
       ELSE /\ response' = Some([requestId |-> requestId, found |-> FALSE])
            /\ UNCHANGED signalled
    /\ UNCHANGED <<registry, request, call, pc, engine, emitted, chunk, lines, stream,
                   delivered, ruleVars, toolVars, startup>>

----------------------------------------------------------------------------
(* rules/loader.ts and handlers/rules.ts *)

RULES_MD == "RULES.md"

\* What can be on disk at rulesPath.
FileContents == { <<"#","A">>, <<>> }
NoFile == [exists |-> FALSE, readable |-> FALSE, content |-> <<>>]
FileStates ==
    {NoFile, [exists |-> TRUE, readable |-> FALSE, content |-> <<>>]}
    \cup {[exists |-> TRUE, readable |-> TRUE, content |-> c] : c \in FileContents}

RemoveAt(seq, i) == SubSeq(seq, 1, i - 1) \o SubSeq(seq, i + 1, Len(seq))

\* c.json({success: true, rules: rules, length: rules.length})
RulesResponse(rules) == [success |-> TRUE, rules |-> rules, length |-> Len(rules)]

\* c.json({success: true, message: "Rules reloaded successfully", rules: rules,
\*         length: rules.length})
ReloadResponse(rules) ==
    [success |-> TRUE, message |-> "Rules reloaded successfully", rules |-> rules,
     length |-> Len(rules)]

\* Faulty variant: a failed read caches what was read, the empty text
LoadedAsRead(r) == r.content

\* What loadRules() caches and returns once readFile has settled: the content, or
\* the default from the catch block.
LoadedRules(r) == IF r.ok THEN r.content ELSE DEFAULT_RULES

\* loadRules() up to its first suspension, called by `by` ("init" or "reload") with
\* rulesPath set: without the file the default is cached and returned at once,
\* otherwise the call is suspended in readFile.
LoadRulesBegin(by) ==
    IF ~rulesFile.exists
    THEN /\ cachedRules' = Some(DEFAULT_RULES)
         /\ latestLoad' = [pending |-> FALSE, cached |-> Some(DEFAULT_RULES)]
         /\ response' = IF by = "reload" THEN Some(ReloadResponse(DEFAULT_RULES)) ELSE Absent
         /\ UNCHANGED loads
    ELSE /\ Len(loads) < MaxLoads
         /\ loads' = Append(loads, [by |-> by, result |-> Absent])
         /\ latestLoad' = [pending |-> TRUE, cached |-> Absent]
         /\ response' = Absent
         /\ UNCHANGED cachedRules

\* The paths validateClaudeCli can resolve to.
DetectedCliPaths == { <<"c","l","i",".","j","s">>, <<"a","l","t",".","j","s">> }

\* args.claudePath
ClaudePathHints == { Absent, Some(<<"c","l","a","u","d","e">>) }

\* main() once validateClaudeCli has resolved to path.
Validated(hint, path) ==
    [pc |-> "validated", hint |-> hint, cliPath |-> Some(path), config |-> Absent,
     exit |-> Absent]

\* await validateClaudeCli(runtime, args.claudePath) resolves: main() holds the
\* detected path.
ValidateResolves(path) ==
    /\ startup.pc = "validating"
    /\ startup' = Validated(startup.hint, path)
    /\ response' = Absent
    /\ UNCHANGED <<turnVars, ruleVars, toolVars>>

\* validateClaudeCli fails: main() rejects, the catch callback calls exit(1).
ValidateFails ==
    /\ startup.pc = "validating"
    /\ startup' = [startup EXCEPT !.pc = "exited", !.exit = Some(1)]
    /\ response' = Absent
    /\ UNCHANGED <<turnVars, ruleVars, toolVars>>

\* Faulty variant: the app is configured with the hint, not with the detected path
ConfigFromHint(detected, hint) ==
    IF IsSome(hint) THEN Val(hint) ELSE <<"c","l","a","u","d","e">>

\* createApp(runtime, {debugMode, staticPath, cliPath: cliPath})
ConfigCliPath(detected, hint) == detected

\* The rest of main(): createApp, where the map is created, initializeRulesLoader
\* sets the path and calls loadRules() without awaiting it and the routes are
\* registered; then runtime.serve.
createApp ==
    /\ startup.pc = "validated"
    /\ ~AppCreated
    /\ startup' = [startup EXCEPT !.pc = "serving",
                       !.config = Some(ConfigCliPath(Val(startup.cliPath), startup.hint))]
    /\ rulesPath' = Some(RULES_MD)
    /\ LoadRulesBegin("init")
    /\ UNCHANGED <<turnVars, rulesFile, toolVars>>

\* POST /api/rules/reload up to its first suspension.
handleReloadRulesRequest ==
    /\ AppCreated
    /\ LoadRulesBegin("reload")
    /\ UNCHANGED <<turnVars, rulesPath, rulesFile, toolVars, startup>>

\* readFile reads the file, or fails, for the i-th suspended loadRules().
ReadFile(i) ==
    /\ i \in 1..Len(loads)
    /\ loads[i].result = Absent
    /\ loads' = [loads EXCEPT ![i].result =
                    Some([ok |-> rulesFile.exists /\ rulesFile.readable,
                          content |-> rulesFile.content])]
    /\ response' = Absent
    /\ UNCHANGED <<turnVars, rulesPath, cachedRules, rulesFile, latestLoad, toolVars, startup>>

\* The i-th suspended loadRules() resumes: the content, or on a read failure the
\* default, is cached and returned; a reload request answers with it.
LoadRulesResume(i) ==
    /\ i \in 1..Len(loads)
    /\ IsSome(loads[i].result)
    /\ LET rules == LoadedRules(Val(loads[i].result))
       IN  /\ cachedRules' = Some(rules)
           /\ latestLoad' = IF latestLoad.pending /\ i = Len(loads)
                             THEN [pending |-> FALSE, cached |-> Some(rules)]
                             ELSE latestLoad
           /\ response' = IF loads[i].by = "reload" THEN Some(ReloadResponse(rules))
                          ELSE Absent
    /\ loads' = RemoveAt(loads, i)
    /\ UNCHANGED <<turnVars, rulesPath, rulesFile, toolVars, startup>>

\* GET /api/rules
handleGetRulesRequest ==
    /\ AppCreated
    /\ response' = Some(RulesResponse(getCachedRules))
    /\ UNCHANGED <<turnVars, ruleVars, toolVars, startup>>

\* RULES.md is written, removed or made unreadable.
FileChange(f) ==
    /\ f # rulesFile
    /\ rulesFile' = f
    /\ response' = Absent
    /\ UNCHANGED <<turnVars, rulesPath, cachedRules, loads, latestLoad, toolVars, startup>>

----------------------------------------------------------------------------
(* A stand-alone call of getAllowedTools *)

ToolNames ==
    { <<"B","a","s","h">>, <<"B","a","s","h","(","l","s",")">>,
      <<"E","d","i","t">>, <<"W","r","i","t","e","r">>,
      <<"R","e","a","d">>, <<"W","e","b","S","e","a","r","c","h">> }

SeqsUpTo(S, n) == UNION {[1..k -> S] : k \in 0..n}

ToolArgs == {Absent} \cup {Some(l) : l \in SeqsUpTo(ToolNames, MaxTools)}

CallGetAllowedTools ==
    /\ toolsResult = Absent
    /\ toolsResult' = Some(getAllowedTools(toolsArg))
    /\ UNCHANGED <<turnVars, response, ruleVars, startup, toolsArg>>

----------------------------------------------------------------------------
(* Specifications *)

Hello == <<"h","e","l","l","o">>
SlashStatus == <<"/","s","t","a","t","u","s">>
SlashSlashX == <<"/","/","x">>
BashAndWebSearch == << <<"B","a","s","h">>, <<"W","e","b","S","e","a","r","c","h">> >>

\* The requests of the turn-lifecycle specification: they differ in the requestId.
LifecycleRequests ==
    {[message |-> Hello, requestId |-> id, sessionId |-> Absent, allowedTools |-> Absent,
      workingDirectory |-> Absent, permissionMode |-> Absent] : id \in RequestIds}

\* The requests of the specification of the query() arguments.  The prompt is made of
\* the message and the sessionId, the options of the sessionId and the other optional
\* fields: every message is paired with every sessionId, and every combination of
\* the optional fields is sent with one message.
ChatRequests ==
    {req \in [message : {Hello, SlashStatus, SlashSlashX},
              requestId : {"r1"},
              sessionId : {Absent, Some(<<>>), Some(<<"s","1">>)},
              allowedTools : {Absent, Some(BashAndWebSearch)},
              workingDirectory : {Absent, Some(<<>>), Some(<<"/","w">>)},
              permissionMode : {Absent, Some(<<"p","l","a","n">>)}] :
        \/ req.message = Hello
        \/ /\ req.allowedTools = Absent
           /\ req.workingDirectory = Absent
           /\ req.permissionMode = Absent}

\* What the engine throws in the turn-lifecycle specification.
LifecycleThrown == {ThrownAbortError, ThrownBoom}

InitCommon ==
    /\ registry = EmptyMap
    /\ signalled = [h \in Handles |-> FALSE]
    /\ request = [h \in Handles |-> Absent]
    /\ call = [h \in Handles |-> Absent]
    /\ pc = [h \in Handles |-> "idle"]
    /\ engine = [h \in Handles |-> <<"idle">>]
    /\ emitted = [h \in Handles |-> <<>>]
    /\ chunk = [h \in Handles |-> Absent]
    /\ lines = [h \in Handles |-> <<>>]
    /\ stream = [h \in Handles |-> "none"]
    /\ delivered = [h \in Handles |-> 0]
    /\ response = Absent
    /\ rulesPath = Absent
    /\ cachedRules = Absent
    /\ loads = <<>>
    /\ latestLoad = [pending |-> FALSE, cached |-> Absent]
    /\ toolsResult = Absent

\* main() once validateClaudeCli has resolved, without a hint.
InitValidated == startup = Validated(Absent, <<"c","l","i",".","j","s">>)

\* The process before createApp, without a RULES.md.
Init ==
    /\ InitCommon
    /\ InitValidated
    /\ rulesFile = NoFile
    /\ toolsArg = Absent

\* Turn lifecycle: chat turns, the engine, the relay, aborts and clients going away.
Next ==
    \/ createApp
    \/ \E req \in LifecycleRequests : StartTurn(NextHandle, req)
    \/ \E h \in Handles, json \in BOOLEAN : EngineEmit(h, json)
    \/ \E h \in Handles : EngineEnd(h)
    \/ \E h \in Handles, error \in LifecycleThrown : EngineThrow(h, error)
    \/ \E h \in Handles : RelayWrite(h)
    \/ \E h \in Handles : GeneratorReturn(h)
    \/ \E h \in Handles : RelayCatch(h)
    \/ \E h \in Handles : RelayClose(h)
    \/ \E h \in Handles : ClientCancel(h)
    \/ \E id \in RequestIds : handleAbortRequest(id)

Spec == Init /\ [][Next]_vars

\* Failures of the engine call: the turns as above without abort requests, with every
\* kind of value the try block can throw and every SDK message serializable.
NextCatch ==
    \/ createApp
    \/ \E req \in LifecycleRequests : StartTurn(NextHandle, req)
    \/ \E h \in Handles : EngineEmit(h, TRUE)
    \/ \E h \in Handles : EngineEnd(h)
    \/ \E h \in Handles, error \in Thrown : EngineThrow(h, error)
    \/ \E h \in Handles : RelayWrite(h)
    \/ \E h \in Handles : GeneratorReturn(h)
    \/ \E h \in Handles : RelayCatch(h)
    \/ \E h \in Handles : RelayClose(h)
    \/ \E h \in Handles : ClientCancel(h)

SpecCatch == Init /\ [][NextCatch]_vars

\* The relay and its client: one turn, with a client that reads lines or goes away.
NextRelay ==
    \/ createApp
    \/ \E req \in LifecycleRequests : StartTurn(HandleOrder[1], req)
    \/ \E h \in Handles, json \in BOOLEAN : EngineEmit(h, json)
    \/ \E h \in Handles : EngineEnd(h)
    \/ \E h \in Handles, error \in LifecycleThrown : EngineThrow(h, error)
    \/ \E h \in Handles : RelayWrite(h)
    \/ \E h \in Handles : GeneratorReturn(h)
    \/ \E h \in Handles : RelayCatch(h)
    \/ \E h \in Handles : RelayClose(h)
    \/ \E h \in Handles : ClientRead(h)
    \/ \E h \in Handles : ClientCancel(h)

SpecRelay == Init /\ [][NextRelay]_vars

\* Turns under fair scheduling: the turns of the lifecycle without abort requests.
NextLive ==
    \/ createApp
    \/ \E req \in LifecycleRequests : StartTurn(NextHandle, req)
    \/ \E h \in Handles, json \in BOOLEAN : EngineEmit(h, json)
    \/ \E h \in Handles : EngineEnd(h)
    \/ \E h \in Handles, error \in LifecycleThrown : EngineThrow(h, error)
    \/ \E h \in Handles : RelayWrite(h)
    \/ \E h \in Handles : GeneratorReturn(h)
    \/ \E h \in Handles : RelayCatch(h)
    \/ \E h \in Handles : RelayClose(h)
    \/ \E h \in Handles : ClientCancel(h)

\* query()'s sequence ends or fails.
EngineStops(h) == EngineEnd(h) \/ \E error \in LifecycleThrown : EngineThrow(h, error)

\* The event loop runs every continuation that is ready: the relay's loop body and
\* its pull of the generator, generator.return(), the relay's catch block and
\* controller.close().  The engine is taken to end or fail in the end.
Fairness ==
    \A h \in Handles :
        /\ WF_vars(EngineStops(h))
        /\ WF_vars(RelayWrite(h))
        /\ WF_vars(GeneratorReturn(h))
        /\ WF_vars(RelayCatch(h))
        /\ WF_vars(RelayClose(h))

SpecLive == Init /\ [][NextLive]_vars /\ Fairness

\* The process when main() calls validateClaudeCli, with or without --claude-path.
InitStart ==
    /\ InitCommon
    /\ startup \in {[pc |-> "validating", hint |-> hint, cliPath |-> Absent,
                      config |-> Absent, exit |-> Absent] : hint \in ClaudePathHints}
    /\ rulesFile = NoFile
    /\ toolsArg = Absent

\* Startup and what follows it: validation, the app, chat turns that run to done,
\* abort requests and GET /api/rules.
NextStart ==
    \/ \E path \in DetectedCliPaths : ValidateResolves(path)
    \/ ValidateFails
    \/ createApp
    \/ \E req \in LifecycleRequests : StartTurn(NextHandle, req)
    \/ \E h \in Handles : EngineEmit(h, TRUE)
    \/ \E h \in Handles : EngineEnd(h)
    \/ \E h \in Handles : RelayWrite(h)
    \/ \E h \in Handles : RelayClose(h)
    \/ \E id \in RequestIds : handleAbortRequest(id)
    \/ handleGetRulesRequest

SpecStart == InitStart /\ [][NextStart]_vars

\* The process before createApp, with any RULES.md or none.
InitPrep ==
    /\ InitCommon
    /\ InitValidated
    /\ rulesFile \in FileStates
    /\ toolsArg = Absent

\* The arguments of query(): the rules cache with its loads and the first turn's start.
NextPrep ==
    \/ createApp
    \/ handleReloadRulesRequest
    \/ \E i \in 1..MaxLoads : ReadFile(i)
    \/ \E i \in 1..MaxLoads : LoadRulesResume(i)
    \/ handleGetRulesRequest
    \/ \E f \in FileStates : FileChange(f)
    \/ \E req \in ChatRequests : StartTurn(HandleOrder[1], req)

SpecPrep == InitPrep /\ [][NextPrep]_vars

\* getAllowedTools on every list of at most MaxTools names.
InitTools ==
    /\ InitCommon
    /\ InitValidated
    /\ rulesFile = NoFile
    /\ toolsArg \in ToolArgs

NextTools == CallGetAllowedTools

SpecTools == InitTools /\ [][NextTools]_vars

----------------------------------------------------------------------------
(* Vocabulary of the properties *)

TerminalTypes == {"done", "aborted", "error"}

TerminalCount(ls) == Cardinality({i \in 1..Len(ls) : ls[i].type \in TerminalTypes})

\* The turn has been started.
Started(h) == pc[h] # "idle"

\* The turn's generator has completed: its finally block has run.
GeneratorDone(h) == pc[h] \in {"close", "catch", "closed", "thrown"}

\* The relay has left start(): the turn is over.
TurnOver(h) == pc[h] \in {"closed", "thrown"}

RequestIdOf(h) == Val(request[h]).requestId

Registered(h) == \E id \in DOMAIN registry : registry[id] = h

\* No other started turn carries the requestId of h.
UniqueRequestId(h) ==
    \A g \in Handles \ {h} : Started(g) => RequestIdOf(g) # RequestIdOf(h)

\* The events the engine emitted, as the claude_json events made of them.
AsClaudeJson(msgs) == [i \in 1..Len(msgs) |-> [type |-> "claude_json", data |-> msgs[i]]]

IsPrefix(a, b) == Len(a) <= Len(b) /\ SubSeq(b, 1, Len(a)) = a

----------------------------------------------------------------------------
(* C1 *)

\* C1 (as claimed): once a chat request's relay is over, however the engine and the
\* relay behaved, the lines written to the response hold exactly one terminal event
\* (done, aborted or error) and it is the last line.
C1_ExactlyOneTerminalLast ==
    \A h \in Handles :
        TurnOver(h) =>
            /\ TerminalCount(lines[h]) = 1
            /\ lines[h][Len(lines[h])].type \in TerminalTypes

----------------------------------------------------------------------------
(* C2 *)

\* C2: once a turn's generator has completed, on whatever path, the registry holds
\* no entry of that turn, and none for its requestId unless another turn that
\* carries the same requestId is still running; the entry is still there while the terminal event
\* is yielded and not yet written, and it is gone when the relay closes the stream.
C2_ReleasedOnEveryExit ==
    \A h \in Handles :
        /\ GeneratorDone(h) => ~Registered(h)
        /\ (GeneratorDone(h) /\ \A g \in Handles \ {h} :
                (Started(g) /\ RequestIdOf(g) = RequestIdOf(h)) => GeneratorDone(g))
             => RequestIdOf(h) \notin DOMAIN registry
        /\ (pc[h] = "yield" /\ Val(chunk[h]).type \in TerminalTypes /\ UniqueRequestId(h))
             => (RequestIdOf(h) \in DOMAIN registry /\ registry[RequestIdOf(h)] = h)
        /\ stream[h] = "closed" => (GeneratorDone(h) /\ ~Registered(h))

\* The caller went away, the relay's write failed, and the entry has been removed.
C2_Witness ==
    \E h \in Handles :
        /\ pc[h] = "thrown"
        /\ engine[h] = <<"returned">>
        /\ RequestIdOf(h) \notin DOMAIN registry

----------------------------------------------------------------------------
(* C3 *)

\* C3: when a turn's handle has been signalled and the engine has raised its
\* cancellation failure (AbortError), the event the generator yields is aborted; the
\* lines written are the claude_json events of what the engine had emitted before it
\* stopped, followed by nothing but aborted; and a stream the relay has closed ends
\* with aborted.
C3_AbortedAfterTrigger ==
    \A h \in Handles :
        (signalled[h] /\ Len(engine[h]) = 2 /\ engine[h][2].name = AbortErrorName) =>
            /\ pc[h] = "yield" => chunk[h] = Some([type |-> "aborted"])
            /\ \/ lines[h] = AsClaudeJson(emitted[h])
               \/ lines[h] = Append(AsClaudeJson(emitted[h]), [type |-> "aborted"])
            /\ pc[h] = "closed" =>
                   lines[h] = Append(AsClaudeJson(emitted[h]), [type |-> "aborted"])

\* A turn cancelled mid-stream, after an event had been written, that ended with aborted.
C3_Witness ==
    \E h \in Handles :
        /\ signalled[h]
        /\ Len(engine[h]) = 2 /\ engine[h][2].name = AbortErrorName
        /\ pc[h] = "closed"
        /\ Len(emitted[h]) >= 1
        /\ lines[h][Len(lines[h])] = [type |-> "aborted"]

----------------------------------------------------------------------------
(* C4 *)

\* The step is an answer of the abort handler for requestId id.
AbortAnswered(id) == IsSome(response') /\ Val(response').requestId = id

\* C4: an abort request for an id with no registered handle, be it never registered
\* or released because every turn that carried it has completed, answers not-found,
\* signals no handle and leaves the registry and every turn as they were.
C4_TriggerUnknownId ==
    [][\A id \in RequestIds :
        (/\ AbortAnswered(id)
         /\ \/ id \notin DOMAIN registry
            \/ \A h \in Handles : (Started(h) /\ RequestIdOf(h) = id) => GeneratorDone(h))
        => (/\ ~Val(response').found
            /\ UNCHANGED turnVars)]_vars

\* An abort request that arrived after the turn had completed was answered not-found.
C4_Witness ==
    /\ response = Some([requestId |-> "r1", found |-> FALSE])
    /\ \E h \in Handles : pc[h] = "closed" /\ RequestIdOf(h) = "r1"

----------------------------------------------------------------------------
(* C5, C6 *)

BaselineNames ==
    << <<"R","e","a","d">>, <<"G","r","e","p">>, <<"G","l","o","b">>,
       <<"L","S","P">>, <<"T","a","s","k">> >>

BlocklistNames ==
    { <<"W","r","i","t","e">>, <<"E","d","i","t">>, <<"D","e","l","e","t","e">>,
      <<"M","o","v","e">>, <<"B","a","s","h">> }

\* The name equals a blocklisted name or is one followed by '('.
MatchesBlocklist(name) ==
    \E b \in BlocklistNames :
        \/ name = b
        \/ /\ Len(name) > Len(b)
           /\ \A i \in 1..Len(b) : name[i] = b[i]
           /\ name[Len(b) + 1] = "("

Elements(seq) == {seq[i] : i \in 1..Len(seq)}

KeptIndexes(approved) ==
    {i \in 1..Len(approved) :
        /\ ~MatchesBlocklist(approved[i])
        /\ approved[i] \notin Elements(BaselineNames)
        /\ \A j \in 1..(i - 1) : approved[j] # approved[i]}

\* The reference list: the baseline, then the kept entries in their original order.
ReferenceAllowedTools(userApproved) ==
    IF userApproved = Absent THEN BaselineNames
    ELSE LET approved == Val(userApproved)
             kept == KeptIndexes(approved)
             nth(k) == CHOOSE i \in kept : Cardinality({j \in kept : j < i}) = k - 1
         IN  BaselineNames \o [k \in 1..Cardinality(kept) |-> approved[nth(k)]]

----------------------------------------------------------------------------
(* C7 *)

----------------------------------------------------------------------------
(* C8, C9 *)

\* The message without its first character if that is '/'.
SlashStripped(message) ==
    IF Len(message) >= 1 /\ message[1] = "/" THEN Tail(message) ELSE message

SeparatorText ==
    <<"\n","\n","-","-","-","\n",
      "U","s","e","r"," ","m","e","s","s","a","g","e",":"," ">>

\* The Rules Document a reader of the cache gets: the cached text, and the built-in
\* default as long as nothing has been cached.
CurrentRulesDocument == IF cachedRules = Absent THEN DEFAULT_RULES ELSE Val(cachedRules)

\* The turn h starts in this step.
Starts(h) == pc[h] = "idle" /\ pc'[h] # "idle"

\* C8 (as claimed): the prompt of a turn whose request has no sessionId is the
\* cached Rules Document, the separator and the slash-stripped message; the prompt
\* of a turn whose request has a sessionId is the slash-stripped message alone.
C8_PromptBySessionIdPresence ==
    [][\A h \in Handles :
        Starts(h) =>
            LET req == Val(request'[h])
            IN  Val(call'[h]).prompt =
                    IF req.sessionId = Absent
                    THEN CurrentRulesDocument \o SeparatorText \o SlashStripped(req.message)
                    ELSE SlashStripped(req.message)]_vars

\* C8 (amended): the prompt of a turn whose request has no sessionId or an empty one
\* is the cached Rules Document, the separator and the slash-stripped message; the
\* prompt of a turn whose request has a non-empty sessionId is the slash-stripped
\* message alone.
C8_PromptByNonEmptySessionId ==
    [][\A h \in Handles :
        Starts(h) =>
            LET req == Val(request'[h])
            IN  Val(call'[h]).prompt =
                    IF req.sessionId = Absent \/ req.sessionId = Some(<<>>)
                    THEN CurrentRulesDocument \o SeparatorText \o SlashStripped(req.message)
                    ELSE SlashStripped(req.message)]_vars

\* A new-session turn started while the content of RULES.md was cached: its prompt is
\* that content, the separator and the message.
C8_Witness ==
    \E h \in Handles :
        /\ IsSome(call[h])
        /\ Val(request[h]).sessionId = Absent
        /\ Val(request[h]).message = <<"h","e","l","l","o">>
        /\ Val(call[h]).prompt = <<"#","A">> \o SeparatorText \o <<"h","e","l","l","o">>

\* The documents the cache can hold.
RulesDocuments == {DEFAULT_RULES} \cup FileContents

\* C9: the message the engine sees, alone on a resumed session and after the rules
\* and the separator on a new one, is the inbound message without its first character
\* if that is '/' ("/status" gives "status", "//x" gives "/x"), and the inbound
\* message unchanged otherwise.
C9_OneLeadingSlashStripped ==
    \A h \in Handles :
        IsSome(call[h]) =>
            LET message == Val(request[h]).message
                seen == IF Len(message) >= 1 /\ message[1] = "/"
                        THEN SubSeq(message, 2, Len(message))
                        ELSE message
                prompt == Val(call[h]).prompt
            IN  \/ prompt = seen
                \/ \E rules \in RulesDocuments : prompt = rules \o SeparatorText \o seen

\* "//x" on a new session reached the engine as "/x" after the rules.
C9_Witness ==
    \E h \in Handles :
        /\ IsSome(call[h])
        /\ Val(request[h]).message = <<"/","/","x">>
        /\ \E rules \in RulesDocuments :
               Val(call[h]).prompt = rules \o SeparatorText \o <<"/","x">>

----------------------------------------------------------------------------
(* C10 *)

\* The claude_json lines among the lines written.
IsClaudeJson(ev) == ev.type = "claude_json"

\* C10: the lines written are the claude_json events of a prefix of what the engine
\* emitted, in its order and with its payloads, followed by at most one terminal line;
\* once the engine's sequence has ended without failure every emitted event has been
\* written, and a stream the relay has then closed holds them followed by one done.
C10_OrderedPrefixThenDone ==
    \A h \in Handles :
        LET written == SelectSeq(lines[h], IsClaudeJson)
        IN  /\ IsPrefix(written, AsClaudeJson(emitted[h]))
            /\ \/ lines[h] = written
               \/ /\ Len(lines[h]) = Len(written) + 1
                  /\ SubSeq(lines[h], 1, Len(written)) = written
                  /\ lines[h][Len(lines[h])].type \in TerminalTypes
            /\ engine[h] = <<"ended">> => written = AsClaudeJson(emitted[h])
            /\ (engine[h] = <<"ended">> /\ pc[h] = "closed") =>
                   lines[h] = Append(AsClaudeJson(emitted[h]), [type |-> "done"])

\* The engine emitted two events and ended; both were written, then done.
C10_Witness ==
    \E h \in Handles :
        /\ engine[h] = <<"ended">>
        /\ pc[h] = "closed"
        /\ Len(emitted[h]) >= 2
        /\ lines[h] = Append(AsClaudeJson(emitted[h]), [type |-> "done"])

----------------------------------------------------------------------------
(* C11, C12 *)

\* The failure is cancellation-class: its name is AbortError or its message contains
\* "aborted by user".
CancellationClass(e) ==
    \/ e.name = <<"A","b","o","r","t","E","r","r","o","r">>
    \/ \E i \in 1..Len(e.message), j \in 1..Len(e.message) :
           SubSeq(e.message, i, j) =
               <<"a","b","o","r","t","e","d"," ","b","y"," ","u","s","e","r">>

\* The engine call of the turn has raised a failure.
EngineFailed(h) == Len(engine[h]) = 2 /\ engine[h][1] = "threw"

CountType(ls, t) == Cardinality({i \in 1..Len(ls) : ls[i].type = t})

\* C11: when the engine call has raised a cancellation-class failure, after however
\* many events, the event the generator yields is aborted; the lines written hold no
\* error line and at most one aborted line; and a stream the relay has closed holds
\* the events emitted before the failure followed by exactly one aborted.
C11_CancellationClassAborted ==
    \A h \in Handles :
        (EngineFailed(h) /\ CancellationClass(engine[h][2])) =>
            /\ pc[h] = "yield" => chunk[h] = Some([type |-> "aborted"])
            /\ CountType(lines[h], "error") = 0
            /\ CountType(lines[h], "aborted") <= 1
            /\ pc[h] = "closed" =>
                   lines[h] = Append(AsClaudeJson(emitted[h]), [type |-> "aborted"])

\* A failure named Error whose message contains the marker, raised after one event,
\* ended the stream with aborted.
C11_Witness ==
    \E h \in Handles :
        /\ EngineFailed(h)
        /\ engine[h][2].name = <<"E","r","r","o","r">>
        /\ CancellationClass(engine[h][2])
        /\ Len(emitted[h]) = 1
        /\ pc[h] = "closed"
        /\ lines[h] = Append(AsClaudeJson(emitted[h]), [type |-> "aborted"])

\* What holds of a turn whose engine call raised a failure that is not
\* cancellation-class, the error event's text being text.
ErrorTurn(h, text) ==
    /\ pc[h] = "yield" => chunk[h] = Some([type |-> "error", error |-> text])
    /\ CountType(lines[h], "done") = 0
    /\ CountType(lines[h], "aborted") = 0
    /\ CountType(lines[h], "error") <= 1
    /\ pc[h] = "closed" =>
           lines[h] = Append(AsClaudeJson(emitted[h]), [type |-> "error", error |-> text])
    /\ GeneratorDone(h) => ~Registered(h)
    /\ (GeneratorDone(h) /\ \A g \in Handles \ {h} :
            (Started(g) /\ RequestIdOf(g) = RequestIdOf(h)) => GeneratorDone(g))
         => RequestIdOf(h) \notin DOMAIN registry
    /\ (\E g \in Handles : pc[g] = "idle") =>
           ENABLED (\E req \in LifecycleRequests : StartTurn(NextHandle, req))

\* The message of a failure: the message of an Error, and a thrown value that is not
\* an Error taken as its own message.
FailureMessage(e) == IF e.isError THEN e.message ELSE e.str

\* C12 (as claimed): when the engine call has raised a failure that is not
\* cancellation-class, the event yielded is one error event whose text is the failure's
\* message; no done or aborted line is written; once the generator has completed the
\* registry does not hold the request's id (unless another turn carrying it is still
\* running); and the next chat request can be started.
C12_ErrorCarriesMessage ==
    \A h \in Handles :
        (EngineFailed(h) /\ ~CancellationClass(engine[h][2])) =>
            ErrorTurn(h, FailureMessage(engine[h][2]))

\* The text of a failure: its message, or its string form ("Error" for an Error
\* without a name of its own) when the message is empty.
FailureText(e) == IF FailureMessage(e) # <<>> THEN FailureMessage(e) ELSE e.str

\* C12 (amended): as claimed, the text of the error event being the failure's message
\* if it has a non-empty one, and the failure's string form otherwise.
C12_ErrorCarriesMessageOrString ==
    \A h \in Handles :
        (EngineFailed(h) /\ ~CancellationClass(engine[h][2])) =>
            ErrorTurn(h, FailureText(engine[h][2]))

\* One turn failed with "boom" and ended with that error line, its id released; the
\* other turn ran to done.
C12_Witness ==
    \E h \in Handles, g \in Handles :
        /\ EngineFailed(h)
        /\ pc[h] = "closed"
        /\ lines[h] = Append(AsClaudeJson(emitted[h]),
                             [type |-> "error", error |-> <<"b","o","o","m">>])
        /\ RequestIdOf(h) \notin DOMAIN registry
        /\ pc[g] = "closed"
        /\ lines[g] = Append(AsClaudeJson(emitted[g]), [type |-> "done"])

----------------------------------------------------------------------------
(* C13 *)

\* The queue of a ReadableStream built without a queuing strategy asks for more
\* while it holds less than one chunk.
HighWaterMark == 1

\* The lines enqueued that the client has not read.
Unread(h) == Len(lines[h]) - delivered[h]

\* C13 (as claimed): the relay pulls the next event only once the line before has
\* been taken downstream, so the lines written and not yet read by the client never
\* exceed the stream's high-water mark, whatever the engine produces.
C13_UnreadWithinHighWaterMark ==
    \A h \in Handles : Unread(h) <= HighWaterMark

----------------------------------------------------------------------------
(* C14 *)

\* C14 (as claimed): no failure leaves start(); and when the relay's loop body has
\* failed (JSON.stringify or enqueue threw), the catch block writes its one error line
\* after the lines already written, which stay as they were, and closes the stream.
C14_RelayFailureContained ==
    [][\A h \in Handles :
        /\ pc'[h] # "thrown"
        /\ (pc[h] = "catch" /\ pc'[h] # "catch") =>
               /\ IsSome(chunk[h]) /\ Val(chunk[h]).type = "error"
               /\ lines'[h] = Append(lines[h], Val(chunk[h]))
               /\ stream'[h] = "closed"]_vars

----------------------------------------------------------------------------
(* C15 *)

\* The options of the query() call hold key exactly when present is true, then with
\* the value of the request's field.
OptionIff(options, key, field, present) ==
    /\ key \in DOMAIN options <=> present
    /\ key \in DOMAIN options => options[key] = Val(field)

\* No option of the call is an empty placeholder.
NoPlaceholder(options) ==
    \A key \in {"resume", "cwd", "permissionMode"} :
        key \in DOMAIN options => options[key] # <<>>

\* C15 (as claimed): the query() call holds resume exactly when the request has a
\* sessionId, cwd exactly when it has a workingDirectory and permissionMode exactly
\* when it has a permissionMode, each with the request's value unchanged, and none of
\* them as an empty placeholder.
C15_OptionsByPresence ==
    \A h \in Handles :
        IsSome(call[h]) =>
            LET req == Val(request[h])
                options == Val(call[h]).options
            IN  /\ OptionIff(options, "resume", req.sessionId, req.sessionId # Absent)
                /\ OptionIff(options, "cwd", req.workingDirectory,
                             req.workingDirectory # Absent)
                /\ OptionIff(options, "permissionMode", req.permissionMode,
                             req.permissionMode # Absent)
                /\ NoPlaceholder(options)

\* The field is there and is not the empty string.
NonEmpty(field) == field # Absent /\ Val(field) # <<>>

\* C15 (amended): as claimed, a field that is the empty string counting as omitted.
C15_OptionsByNonEmptyField ==
    \A h \in Handles :
        IsSome(call[h]) =>
            LET req == Val(request[h])
                options == Val(call[h]).options
            IN  /\ OptionIff(options, "resume", req.sessionId, NonEmpty(req.sessionId))
                /\ OptionIff(options, "cwd", req.workingDirectory,
                             NonEmpty(req.workingDirectory))
                /\ OptionIff(options, "permissionMode", req.permissionMode,
                             NonEmpty(req.permissionMode))
                /\ NoPlaceholder(options)

\* A request with a sessionId and a permissionMode and without a workingDirectory: the
\* call has resume and permissionMode and no cwd.
C15_Witness ==
    \E h \in Handles :
        /\ IsSome(call[h])
        /\ Val(request[h]).workingDirectory = Absent
        /\ DOMAIN Val(call[h]).options =
               {"abortController", "executable", "executableArgs",
                "pathToClaudeCodeExecutable", "allowedTools", "resume", "permissionMode"}
        /\ Val(call[h]).options.resume = <<"s","1">>
        /\ Val(call[h]).options.permissionMode = <<"p","l","a","n">>

----------------------------------------------------------------------------
(* C16 *)

\* The turn is in flight: started, its generator not yet completed.
InFlight(h) == pc[h] \in {"await", "yield", "return"}

\* No other turn in flight carries the requestId of h.
NoOtherInFlightWithId(h) ==
    \A g \in Handles \ {h} : InFlight(g) => RequestIdOf(g) # RequestIdOf(h)

\* The registry maps the requestId of h to the handle of h and no other id to it,
\* and an abort request for that id answered in this step reports found and signals
\* the handle of h and no other.
OwnHandleRegistered(h) ==
    /\ RequestIdOf(h) \in DOMAIN registry
    /\ registry[RequestIdOf(h)] = h
    /\ \A id \in DOMAIN registry : registry[id] = h => id = RequestIdOf(h)
    /\ AbortAnswered(RequestIdOf(h)) =>
           /\ Val(response').found
           /\ signalled' = [signalled EXCEPT ![h] = TRUE]

\* C16 (as claimed): while a turn is in flight and no other turn in flight carries its
\* requestId, the registry maps the requestId to the turn's own handle, which is no
\* other turn's, and an abort request for it reports found and signals that handle
\* alone.
C16_OwnHandleWhileInFlight ==
    [][\A h \in Handles :
        (InFlight(h) /\ NoOtherInFlightWithId(h)) => OwnHandleRegistered(h)]_vars

----------------------------------------------------------------------------
(* C17 *)

\* All there is of one turn: its request and query() call, where its generator and
\* relay stand, what the engine emitted, what was written, and its handle's signal.
TurnState(h) ==
    <<request[h], call[h], pc[h], engine[h], emitted[h], chunk[h], lines[h], stream[h],
      signalled[h]>>

\* The entry of the registry for id, if any.
EntryOf(id) == IF id \in DOMAIN registry THEN Some(registry[id]) ELSE Absent

\* C17: of two turns with different requestIds, a step of one (its start, an event, a
\* failure of its engine, its cancellation, a failure of its relay, its termination)
\* leaves everything of the other as it was, the other's registry entry included, and
\* removes no id from the registry but its own.
C17_TurnsIsolated ==
    [][\A h \in Handles, g \in Handles :
        (/\ h # g
         /\ IsSome(request'[h]) /\ IsSome(request[g])
         /\ Val(request'[h]).requestId # RequestIdOf(g)
         /\ TurnState(h)' # TurnState(h))
        => /\ TurnState(g)' = TurnState(g)
           /\ EntryOf(RequestIdOf(g))' = EntryOf(RequestIdOf(g))
           /\ \A id \in DOMAIN registry :
                  id \notin DOMAIN registry' => id = Val(request'[h]).requestId]_vars

\* One turn's engine failed and that turn is over; the other turn, under another
\* requestId, is still in flight and still registered, alone.
C17_Witness ==
    \E h \in Handles, g \in Handles :
        /\ EngineFailed(h) /\ pc[h] = "closed"
        /\ InFlight(g)
        /\ RequestIdOf(h) # RequestIdOf(g)
        /\ DOMAIN registry = {RequestIdOf(g)}
        /\ registry[RequestIdOf(g)] = g

----------------------------------------------------------------------------
(* C18 *)

\* The built-in default document.
DefaultDocument == DEFAULT_RULES

\* The answer of POST /api/rules/reload that reports success with the default.
ReloadedDefault ==
    [success |-> TRUE, message |-> "Rules reloaded successfully",
     rules |-> DefaultDocument, length |-> Len(DefaultDocument)]

\* C18: a load that finds no file (at initialization or on reload), and a load whose
\* read of the file failed, leave the default document in the cache; when the load
\* was a reload's, the request is answered with success and the default document.
C18_LoadFallsBackToDefault ==
    [][/\ (createApp /\ ~rulesFile.exists) => cachedRules' = Some(DefaultDocument)
       /\ (handleReloadRulesRequest /\ ~rulesFile.exists) =>
              /\ cachedRules' = Some(DefaultDocument)
              /\ response' = Some(ReloadedDefault)
       /\ \A i \in 1..Len(loads) :
              (LoadRulesResume(i) /\ ~Val(loads[i].result).ok) =>
                  /\ cachedRules' = Some(DefaultDocument)
                  /\ loads[i].by = "reload" => response' = Some(ReloadedDefault)]_vars

\* A reload of a file that is there and cannot be read was answered with success and
\* the default document.
C18_Witness ==
    /\ response = Some(ReloadedDefault)
    /\ rulesFile.exists /\ ~rulesFile.readable
    /\ cachedRules = Some(DefaultDocument)
    /\ loads = <<>>

----------------------------------------------------------------------------
(* C19 *)

\* The document a load of the file f gives.
FileDocument(f) == IF f.exists /\ f.readable THEN f.content ELSE DefaultDocument

\* What readFile gives on the file f.
Reading(f) == [ok |-> f.exists /\ f.readable, content |-> f.content]

\* The prompt of a new-session turn with the message "hello".
NewSessionPrompt == prepareMessageWithRules(<<"h","e","l","l","o">>, Absent)

\* A reload of the file as it is now completes in this step.
ReloadCompletes ==
    \/ handleReloadRulesRequest /\ ~rulesFile.exists
    \/ \E i \in 1..Len(loads) :
           /\ LoadRulesResume(i)
           /\ loads[i].by = "reload"
           /\ Val(loads[i].result) = Reading(rulesFile)

\* C19: a reload of the file as it is caches the document that file gives; so when the
\* cache already holds that document (from a load of the same content, such as the
\* reload before), the reload leaves the cache and the prompt of a new-session turn
\* as they were.
C19_ReloadIdempotent ==
    [][ReloadCompletes =>
          /\ cachedRules' = Some(FileDocument(rulesFile))
          /\ cachedRules = Some(FileDocument(rulesFile)) =>
                 /\ cachedRules' = cachedRules
                 /\ NewSessionPrompt' = NewSessionPrompt]_vars

\* A new-session turn was started with the content of RULES.md in its prompt, and a
\* reload of the same content has completed since: the cache holds what it held.
C19_Witness ==
    /\ IsSome(call["h1"])
    /\ Val(call["h1"]).prompt = <<"#","A">> \o SeparatorText \o <<"h","e","l","l","o">>
    /\ response = Some([success |-> TRUE, message |-> "Rules reloaded successfully",
                        rules |-> <<"#","A">>, length |-> 2])
    /\ cachedRules = Some(<<"#","A">>)
    /\ loads = <<>>

----------------------------------------------------------------------------
(* C20 *)

\* C20: a chat turn's start and GET /api/rules leave the cache and the loads in
\* progress as they were and take the document from the cache, whatever the file holds;
\* the cache changes only when an initial or a reload's load completes; so a change
\* of the file changes neither the cache nor the document readers get.
C20_ReadsServedFromCache ==
    [][/\ (handleGetRulesRequest \/ \E h \in Handles : Starts(h)) =>
              UNCHANGED <<rulesPath, cachedRules, rulesFile, loads>>
       /\ handleGetRulesRequest =>
              response' = Some([success |-> TRUE, rules |-> CurrentRulesDocument,
                                length |-> Len(CurrentRulesDocument)])
       /\ \A h \in Handles :
              (Starts(h) /\ Val(request'[h]).sessionId = Absent) =>
                  Val(call'[h]).prompt =
                      CurrentRulesDocument \o SeparatorText
                          \o SlashStripped(Val(request'[h]).message)
       /\ cachedRules' # cachedRules =>
              \/ createApp
              \/ handleReloadRulesRequest
              \/ \E i \in 1..Len(loads) : LoadRulesResume(i)
       /\ rulesFile' # rulesFile =>
              /\ cachedRules' = cachedRules
              /\ CurrentRulesDocument' = CurrentRulesDocument]_vars

\* RULES.md holds a text and can be read, no load is in progress, and GET /api/rules
\* has just answered with the cached document, which is another text.
C20_Witness ==
    /\ rulesFile.exists /\ rulesFile.readable
    /\ loads = <<>>
    /\ IsSome(cachedRules)
    /\ Val(cachedRules) # rulesFile.content
    /\ response = Some([success |-> TRUE, rules |-> Val(cachedRules),
                        length |-> Len(Val(cachedRules))])

----------------------------------------------------------------------------
(* C21 *)

\* Something of the app exists or a request has been served.
AppOrRequestSeen ==
    \/ rulesPath # Absent
    \/ cachedRules # Absent
    \/ loads # <<>>
    \/ registry # EmptyMap
    \/ response # Absent
    \/ \E h \in Handles : Started(h)

\* C21: the app exists and requests are served only once validateClaudeCli has
\* resolved to a path; when the validation has failed the process has exited with a
\* non-zero status, no app was created and no request served; and the path every
\* turn passes to the engine is the one the validation resolved to.
C21_ServesOnlyAfterValidation ==
    /\ AppOrRequestSeen =>
           /\ startup.pc = "serving"
           /\ startup.cliPath # Absent
           /\ Val(startup.cliPath) \in DetectedCliPaths
    /\ startup.pc = "exited" =>
           /\ startup.exit # Absent /\ Val(startup.exit) # 0
           /\ startup.cliPath = Absent
           /\ ~AppOrRequestSeen
    /\ \A h \in Handles :
           IsSome(call[h]) =>
               Val(call[h]).options.pathToClaudeCodeExecutable = Val(startup.cliPath)

\* Started with --claude-path claude, the validation resolved to alt.js; two turns
\* ran, each passing alt.js to the engine, the second to its end.
C21_Witness ==
    /\ startup.hint = Some(<<"c","l","a","u","d","e">>)
    /\ startup.cliPath = Some(<<"a","l","t",".","j","s">>)
    /\ \A h \in Handles :
           /\ IsSome(call[h])
           /\ Val(call[h]).options.pathToClaudeCodeExecutable = <<"a","l","t",".","j","s">>
    /\ pc["h2"] = "closed"

----------------------------------------------------------------------------
(* C22 *)

\* The AbortController g was created before h.
CreatedBefore(g, h) ==
    \E i \in 1..Len(HandleOrder), j \in 1..Len(HandleOrder) :
        i < j /\ HandleOrder[i] = g /\ HandleOrder[j] = h

\* C22: when a turn starts with the requestId of an earlier turn that is in flight and
\* registered, the entry of that id becomes the later turn's handle; and from then on
\* the earlier turn's handle is in the registry under no id and is signalled by no
\* step, and an abort request for the id that reports found signals the later turn's
\* handle alone.
C22_LastRegistrationWins ==
    [][\A g \in Handles, h \in Handles :
        (/\ CreatedBefore(g, h)
         /\ Started(g) /\ pc'[h] # "idle"
         /\ Val(request'[h]).requestId = RequestIdOf(g))
        => /\ (Starts(h) /\ InFlight(g) /\ Registered(g)) =>
                  registry'[RequestIdOf(g)] = h
           /\ \A id \in DOMAIN registry' : registry'[id] # g
           /\ signalled'[g] = signalled[g]
           /\ (AbortAnswered(RequestIdOf(g)) /\ Val(response').found) =>
                  signalled' = [signalled EXCEPT ![h] = TRUE]]_vars

\* Two turns in flight under r1: the abort request for r1 reported found and signalled
\* the second turn's handle, not the first's.
C22_Witness ==
    /\ InFlight("h1") /\ InFlight("h2")
    /\ RequestIdOf("h1") = "r1" /\ RequestIdOf("h2") = "r1"
    /\ registry = [id \in {"r1"} |-> "h2"]
    /\ response = Some([requestId |-> "r1", found |-> TRUE])
    /\ signalled["h2"] /\ ~signalled["h1"]

----------------------------------------------------------------------------
(* C23 *)

\* The generator of h completes in this step: its finally block runs.
Completes(h) == ~GeneratorDone(h) /\ GeneratorDone(h)'

\* C23 (as claimed): the cleanup of a turn removes no entry that holds another
\* turn's handle: when a turn's generator completes, every other turn in flight that
\* is registered, under the same requestId or another, is registered as before, and
\* an abort request for its id still finds it.
C23_CleanupRemovesOwnEntryOnly ==
    [][\A h \in Handles, g \in Handles :
        (h # g /\ Completes(h) /\ InFlight(g) /\ Registered(g)) =>
            /\ RequestIdOf(g) \in DOMAIN registry'
            /\ registry'[RequestIdOf(g)] = g]_vars

----------------------------------------------------------------------------
(* C24 *)

\* C24 (as claimed): a turn whose handle an abort request has found and signalled,
\* at whatever point before its entry was released, ends with aborted: the stream
\* the relay has closed holds no done and no error line and ends with the aborted
\* line.
C24_FoundTriggerEndsAborted ==
    \A h \in Handles :
        (signalled[h] /\ pc[h] = "closed") =>
            /\ CountType(lines[h], "done") = 0
            /\ CountType(lines[h], "error") = 0
            /\ lines[h][Len(lines[h])] = [type |-> "aborted"]

----------------------------------------------------------------------------
(* C25 *)

\* The generator of h has yielded its terminal event.
TerminalEmitted(h) == engine[h] = <<"ended">> \/ EngineFailed(h)

\* The relay of h stopped pulling before the terminal event: its loop body failed on
\* an event and generator.return() closed the engine's sequence.
StoppedPulling(h) == engine[h] = <<"returned">>

\* The generator of h has completed and the registry holds neither the handle of h
\* nor the requestId of h.
Released(h) ==
    /\ Started(h)
    /\ GeneratorDone(h)
    /\ ~Registered(h)
    /\ RequestIdOf(h) \notin DOMAIN registry

\* C25: when the engine's sequence ends or fails in the end and the ready
\* continuations are run, every started turn comes to emit its terminal event, unless
\* its relay stopped pulling before, and comes to a state where its generator has
\* completed and its requestId is not in the registry.
C25_EveryTurnTerminatesAndReleases ==
    \A h \in Handles :
        /\ Started(h) ~> (TerminalEmitted(h) \/ StoppedPulling(h))
        /\ Started(h) ~> Released(h)

\* A turn whose engine failed after an event is over, its terminal line written, and
\* the registry is empty.
C25_Witness ==
    \E h \in Handles :
        /\ EngineFailed(h)
        /\ Len(emitted[h]) >= 1
        /\ pc[h] = "closed"
        /\ lines[h][Len(lines[h])].type \in TerminalTypes
        /\ registry = EmptyMap

----------------------------------------------------------------------------
(* C26 *)

\* RULES.md is there and can be read.
FileReadable == rulesFile.exists /\ rulesFile.readable

\* The prompt of a new-session turn that is prepended with the document rules.
PrependedWith(rules, req) == rules \o SeparatorText \o SlashStripped(req.message)

\* C26: a new-session turn that starts once createApp has returned, while RULES.md is
\* there and can be read, has the content of RULES.md prepended to its prompt, also
\* when the load that createApp began has not finished.
C26_FileRulesOnceAppCreated ==
    [][\A h \in Handles :
          (Starts(h) /\ Val(request'[h]).sessionId = Absent /\ FileReadable) =>
              Val(call'[h]).prompt = PrependedWith(rulesFile.content, Val(request'[h]))]_vars

----------------------------------------------------------------------------
(* C27 *)

\* No loadRules() call is suspended in readFile.
NoLoadInProgress == loads = <<>>

\* C27: once the app is created and no load is in progress, the cache holds what the
\* load that was begun last has cached: a load begun before it and resumed after it
\* has not put its older document in the cache.
C27_CacheIsLatestLoad ==
    (AppCreated /\ NoLoadInProgress) => cachedRules = latestLoad.cached

====
